---- MODULE Spec2Model ----
(***************************************************************************)
(* Model of Bot.py: CodeDecoder.decode_codes (image loading, the five      *)
(* preprocessing variants, the per-variant scan with duplicate removal)    *)
(* and TelegramBot.format_results with its two payload analysers.          *)
(*                                                                         *)
(* Text is a sequence of one-character strings.  The external primitives   *)
(* (cv2.imdecode, pyzbar.decode and the objects it returns) are inputs:    *)
(* every outcome they can produce is a nondeterministic choice.            *)
(***************************************************************************)
EXTENDS Integers, Sequences, FiniteSets, TLC

\* pc                where control stands: "load", "scan", "done", "replied"
\* image             the array cv2.imdecode returned, None before and on failure
\* processed_images  the list preprocess_image returned
\* i                 the index of the variant being scanned
\* j                 how many objects of variant i's list the loop has handled
\* all_decoded       the entries kept so far
\* results           the dictionary decode_codes returns
\* stream            history: every detection the loop body ran on, in order,
\*                   with its position in its variant's list
\* failed            history: the variants whose try block ended in the handler
\* response          the text handle_photo sends
VARIABLES pc, image, processed_images, i, j, all_decoded, results,
          stream, failed, response

vars == <<pc, image, processed_images, i, j, all_decoded, results,
          stream, failed, response>>

(***************************************************************************)
(* Bounds                                                                  *)
(***************************************************************************)
\* detections one call of pyzbar.decode returns at most
MaxDet == 2
\* detections processed over one run of decode_codes at most
MaxTotal == 2
\* variants whose scan raises over one run at most
MaxFail == 1
\* tokens a generated QR payload is made of at most
MaxTok == 4
\* length of a generated digit payload at most
MaxLen == 14

(***************************************************************************)
(* Helpers on sequences                                                    *)
(***************************************************************************)
Min(a, b) == IF a < b THEN a ELSE b

IsPrefix(s, t) == Len(s) <= Len(t) /\ SubSeq(t, 1, Len(s)) = s

\* s[lo:hi] of Python for 0 <= lo, 0 <= hi
PySlice(s, lo, hi) == SubSeq(s, lo + 1, Min(hi, Len(s)))

\* s.startswith(p)
StartsWith(s, p) == Len(p) <= Len(s) /\ SubSeq(s, 1, Len(p)) = p

\* least 1-based position >= from where p occurs in s, 0 when there is none
RECURSIVE FindFrom(_, _, _)
FindFrom(s, p, from) ==
    IF from + Len(p) - 1 > Len(s) THEN 0
    ELSE IF SubSeq(s, from, from + Len(p) - 1) = p THEN from
    ELSE FindFrom(s, p, from + 1)

\* p in s
Contains(s, p) == FindFrom(s, p, 1) # 0

\* s.split(sep): pieces between the non-overlapping occurrences of sep,
\* found left to right
RECURSIVE Split(_, _)
Split(s, sep) ==
    LET k == FindFrom(s, sep, 1)
    IN IF k = 0 THEN <<s>>
       ELSE <<SubSeq(s, 1, k - 1)>> \o Split(SubSeq(s, k + Len(sep), Len(s)), sep)

(***************************************************************************)
(* pyzbar objects                                                          *)
(***************************************************************************)
\* a byte no UTF-8 text contains
BadByte == "\\xff"

\* bytes.decode('utf-8', errors='ignore'): the undecodable bytes are dropped
DecodeUtf8Ignore(bytes) == SelectSeq(bytes, LAMBDA b : b # BadByte)

\* CodeDecoder.get_barcode_type_name
get_barcode_type_name(symbol_type) ==
    CASE symbol_type = "EAN8" -> "EAN-8"
      [] symbol_type = "EAN13" -> "EAN-13"
      [] symbol_type = "UPCA" -> "UPC-A"
      [] symbol_type = "UPCE" -> "UPC-E"
      [] symbol_type = "CODE39" -> "Code 39"
      [] symbol_type = "CODE93" -> "Code 93"
      [] symbol_type = "CODE128" -> "Code 128"
      [] symbol_type = "CODABAR" -> "Codabar"
      [] symbol_type = "DATABAR" -> "DataBar"
      [] symbol_type = "DATABAR_EXP" -> "DataBar Expanded"
      [] symbol_type = "I25" -> "Interleaved 2 of 5"
      [] symbol_type = "QRCODE" -> "QR Code"
      [] symbol_type = "PDF417" -> "PDF417"
      [] symbol_type = "DATAMATRIX" -> "Data Matrix"
      [] symbol_type = "AZTEC" -> "Aztec Code"
      [] OTHER -> "Type inconnu (" \o symbol_type \o ")"

\* the 'N/A' of an object without a quality attribute: no number
NA == <<>>

\* what the scanner reports beside payload and type: where the symbol lies
\* and, when the object has the attribute, how well it was read
Looks == { [rect |-> [left |-> 0, top |-> 0, width |-> 4, height |-> 4],
            polygon |-> << <<0, 0>>, <<0, 4>>, <<4, 4>>, <<4, 0>> >>,
            has_quality |-> TRUE, quality |-> 1],
           [rect |-> [left |-> 5, top |-> 7, width |-> 4, height |-> 4],
            polygon |-> << <<5, 7>>, <<5, 11>>, <<9, 11>>, <<9, 7>> >>,
            has_quality |-> TRUE, quality |-> 2] }

\* an object of a pyzbar build without the quality attribute
LookNoQuality ==
    [rect |-> [left |-> 1, top |-> 2, width |-> 3, height |-> 3],
     polygon |-> <<>>, has_quality |-> FALSE, quality |-> 0]

RawPayloads == { <<"a">>, <<"a", BadByte>>, <<"b">> }

RawTypes == { "QRCODE", "EAN13" }

Decoded(d, t, look) ==
    [data |-> d, type |-> t, rect |-> look.rect, polygon |-> look.polygon,
     has_quality |-> look.has_quality, quality |-> look.quality]

\* the objects pyzbar.decode can return
DecodedObjects ==
    { Decoded(d, t, look) : d \in RawPayloads, t \in RawTypes, look \in Looks }

\* the images cv2.imdecode can return (IMREAD_COLOR: three channels)
Images == { [width |-> 32, height |-> 16, channels |-> 3] }

None == [width |-> 0, height |-> 0, channels |-> 0]

(***************************************************************************)
(* CodeDecoder.decode_codes                                                *)
(***************************************************************************)
\* the dictionary decode_codes appends for obj found in variant step
Entry(obj, step) ==
    [data |-> DecodeUtf8Ignore(obj.data),
     type |-> get_barcode_type_name(obj.type),
     raw_type |-> obj.type,
     quality |-> IF obj.has_quality THEN <<obj.quality>> ELSE NA,
     rect |-> [x |-> obj.rect.left, y |-> obj.rect.top,
               width |-> obj.rect.width, height |-> obj.rect.height],
     polygon |-> obj.polygon,
     preprocessing_step |-> step]

\* a duplicate test that also compares the rectangles
IsDuplicate_WithRect(decoded, obj) ==
    \E k \in 1..Len(decoded) :
        /\ decoded[k].data = DecodeUtf8Ignore(obj.data)
        /\ decoded[k].type = get_barcode_type_name(obj.type)
        /\ decoded[k].rect = Entry(obj, 0).rect

\* the test of lines 107-109: some existing entry has obj's text and type name
IsDuplicate(decoded, obj) ==
    \E k \in 1..Len(decoded) :
        /\ decoded[k].data = DecodeUtf8Ignore(obj.data)
        /\ decoded[k].type = get_barcode_type_name(obj.type)

\* a merge that keeps, of two detections of one key, the better read one
AppendUnlessDuplicate_KeepBest(decoded, obj, step) ==
    IF IsDuplicate(decoded, obj)
    THEN [k \in 1..Len(decoded) |->
            IF /\ decoded[k].data = DecodeUtf8Ignore(obj.data)
               /\ decoded[k].type = get_barcode_type_name(obj.type)
               /\ decoded[k].quality # NA
               /\ obj.has_quality
               /\ decoded[k].quality[1] < obj.quality
            THEN Entry(obj, step) ELSE decoded[k]]
    ELSE Append(decoded, Entry(obj, step))

\* a merge that moves a detection seen again to the end of the list
AppendUnlessDuplicate_MoveLast(decoded, obj, step) ==
    Append(SelectSeq(decoded,
                     LAMBDA e : ~(/\ e.data = DecodeUtf8Ignore(obj.data)
                                  /\ e.type = get_barcode_type_name(obj.type))),
           Entry(obj, step))

\* a merge that puts a new detection in front of the list
AppendUnlessDuplicate_Prepend(decoded, obj, step) ==
    IF IsDuplicate(decoded, obj) THEN decoded
    ELSE <<Entry(obj, step)>> \o decoded

\* all_decoded.append(...) guarded by the duplicate test
AppendUnlessDuplicate(decoded, obj, step) ==
    IF IsDuplicate(decoded, obj) THEN decoded
    ELSE Append(decoded, Entry(obj, step))

\* the transforms of preprocess_image, in the order they are appended
preprocess_image(img) == << "original", "gray", "enhanced", "thresh", "otsu" >>

\* an error result that also carries an empty report
ErrorResult_WithReport ==
    [error |-> "Impossible de lire l'image", codes_found |-> <<>>, total_codes |-> 0]

ErrorResult == [error |-> "Impossible de lire l'image"]

\* a report that counts the distinct payload texts
SuccessResult_CountTexts(img, decoded) ==
    [codes_found |-> decoded,
     image_info |-> [dimensions |-> <<ToString(img.width), "x", ToString(img.height)>>,
                     channels |-> img.channels],
     total_codes |-> Cardinality({ decoded[k].data : k \in 1..Len(decoded) })]

\* a report that turns into the error result when nothing was found
SuccessResult_ErrorWhenEmpty(img, decoded) ==
    IF decoded = <<>> THEN [error |-> "Impossible de lire l'image"]
    ELSE [codes_found |-> decoded,
          image_info |-> [dimensions |-> <<ToString(img.width), "x", ToString(img.height)>>,
                          channels |-> img.channels],
          total_codes |-> Len(decoded)]

SuccessResult(img, decoded) ==
    [codes_found |-> decoded,
     image_info |-> [dimensions |-> <<ToString(img.width), "x", ToString(img.height)>>,
                     channels |-> img.channels],
     total_codes |-> Len(decoded)]

NoResult == [pending |-> TRUE]

Init ==
    /\ pc = "load"
    /\ image = None
    /\ processed_images = <<>>
    /\ i = 0
    /\ j = 0
    /\ all_decoded = <<>>
    /\ results = NoResult
    /\ stream = <<>>
    /\ failed = {}
    /\ response = <<>>

\* cv2.imdecode returns None: the error dictionary is returned at once
LoadFails ==
    /\ pc = "load"
    /\ pc' = "done"
    /\ results' = ErrorResult
    /\ UNCHANGED <<image, processed_images, i, j, all_decoded, stream, failed,
                   response>>

\* cv2.imdecode returns an image; the five variants are generated
LoadImage ==
    /\ pc = "load"
    /\ \E img \in Images :
         /\ image' = img
         /\ processed_images' = preprocess_image(img)
    /\ i' = 0
    /\ j' = 0
    /\ pc' = "scan"
    /\ UNCHANGED <<all_decoded, results, stream, failed, response>>

\* the exception handler of lines 124-125: the rest of variant i is skipped
SkipVariant ==
    /\ failed' = failed \cup {i}
    /\ i' = i + 1
    /\ j' = 0
    /\ UNCHANGED <<pc, image, processed_images, all_decoded, results, stream,
                   response>>

\* pyzbar.decode(proc_img) raises, or the loop body raises on the first
\* object of the list: nothing of variant i has been appended
ScanRaises ==
    /\ pc = "scan"
    /\ i < Len(processed_images)
    /\ j = 0
    /\ Cardinality(failed) < MaxFail
    /\ SkipVariant

\* the loop body for the next object of the list pyzbar.decode returned;
\* the list is read front to back only, so its objects are chosen as the
\* loop reaches them
ProcessDetection ==
    /\ pc = "scan"
    /\ i < Len(processed_images)
    /\ j < MaxDet
    /\ Len(stream) < MaxTotal
    /\ \E obj \in DecodedObjects :
         /\ all_decoded' = AppendUnlessDuplicate(all_decoded, obj, i)
         /\ stream' = Append(stream, [entry |-> Entry(obj, i), pos |-> j])
    /\ j' = j + 1
    /\ UNCHANGED <<pc, image, processed_images, i, results, failed,
                   response>>

\* the loop body raises on a later object of the list: the entries variant i
\* appended before stay in all_decoded
ProcessRaises ==
    /\ pc = "scan"
    /\ i < Len(processed_images)
    /\ 0 < j
    /\ j < MaxDet
    /\ Cardinality(failed) < MaxFail
    /\ SkipVariant

\* the list of variant i is exhausted
NextVariant ==
    /\ pc = "scan"
    /\ i < Len(processed_images)
    /\ i' = i + 1
    /\ j' = 0
    /\ UNCHANGED <<pc, image, processed_images, all_decoded, results, stream,
                   failed, response>>

\* lines 127-130
Finish ==
    /\ pc = "scan"
    /\ i = Len(processed_images)
    /\ results' = SuccessResult(image, all_decoded)
    /\ pc' = "done"
    /\ UNCHANGED <<image, processed_images, i, j, all_decoded, stream, failed,
                   response>>

(***************************************************************************)
(* TelegramBot.format_results and the payload analysers.  The response is  *)
(* the sequence of its lines, a line being its label and the values        *)
(* interpolated into it.                                                   *)
(***************************************************************************)
Line(label, value) == [label |-> label, value |-> value]

\* a decomposition whose product field runs into the check digit
analyze_product_code_LongProduct(data) ==
    IF Len(data) = 13 THEN
        << Line("Code pays", PySlice(data, 0, 3)),
           Line("Code fabricant", PySlice(data, 3, 8)),
           Line("Code produit", PySlice(data, 8, 13)),
           Line("Chiffre de controle", <<data[12 + 1]>>) >>
    ELSE IF Len(data) = 8 THEN
        << Line("Code pays", PySlice(data, 0, 2)),
           Line("Code produit", PySlice(data, 2, 8)),
           Line("Chiffre de controle", <<data[7 + 1]>>) >>
    ELSE <<>>

\* TelegramBot.analyze_product_code
analyze_product_code(data) ==
    IF Len(data) = 13 THEN
        << Line("Code pays", PySlice(data, 0, 3)),
           Line("Code fabricant", PySlice(data, 3, 8)),
           Line("Code produit", PySlice(data, 8, 12)),
           Line("Chiffre de controle", <<data[12 + 1]>>) >>
    ELSE IF Len(data) = 8 THEN
        << Line("Code pays", PySlice(data, 0, 2)),
           Line("Code produit", PySlice(data, 2, 7)),
           Line("Chiffre de controle", <<data[7 + 1]>>) >>
    ELSE <<>>

Http == <<"h", "t", "t", "p">>

Mailto == <<"m", "a", "i", "l", "t", "o", ":">>

Tel == <<"t", "e", "l", ":">>

Wifi == <<"W", "I", "F", "I", ":">>

Vcard == <<"B", "E", "G", "I", "N", ":", "V", "C", "A", "R", "D">>

SsidTag == <<"S", ":">>

Semicolon == <<";">>

\* data.split('S:')[1].split(';')[0]
ExtractSsid(data) == Split(Split(data, SsidTag)[1 + 1], Semicolon)[0 + 1]

\* TelegramBot.analyze_qr_content
analyze_qr_content(data) ==
    ( IF StartsWith(data, Http) THEN << Line("Type", <<"URL">>) >>
      ELSE IF StartsWith(data, Mailto) THEN << Line("Type", <<"Email">>) >>
      ELSE IF StartsWith(data, Tel) THEN << Line("Type", <<"Telephone">>) >>
      ELSE IF StartsWith(data, Wifi) THEN
          << Line("Type", <<"Configuration WiFi">>) >>
          \o ( IF Contains(data, SsidTag)
               THEN << Line("SSID", ExtractSsid(data)) >>
               ELSE <<>> )
      ELSE IF StartsWith(data, Vcard) THEN
          << Line("Type", <<"Carte de visite (vCard)">>) >>
      ELSE << Line("Type", <<"Texte">>) >> )
    \o << Line("Longueur", <<ToString(Len(data))>>) >>

RetailTypes == { "EAN-13", "EAN-8", "UPC-A", "UPC-E" }

\* lines 238-241: the analyser chosen by the type name
analyze(code) ==
    IF code.type \in RetailTypes THEN analyze_product_code(code.data)
    ELSE IF code.type = "QR Code" THEN analyze_qr_content(code.data)
    ELSE <<>>

\* the body of the loop of format_results for the n-th code
format_code(n, code) ==
    << Line("Code #", <<ToString(n), code.type>>),
       Line("data", code.data),
       Line("Position", <<ToString(code.rect.x), ToString(code.rect.y)>>),
       Line("Taille", <<ToString(code.rect.width), ToString(code.rect.height)>>) >>
    \o ( IF code.quality # NA
         THEN << Line("Qualite", <<ToString(code.quality[1])>>) >>
         ELSE <<>> )
    \o analyze(code)
    \o << Line("", <<>>) >>

RECURSIVE format_codes(_, _)
format_codes(codes, n) ==
    IF n > Len(codes) THEN <<>>
    ELSE format_code(n, codes[n]) \o format_codes(codes, n + 1)

\* TelegramBot.format_results
format_results(res) ==
    IF res.total_codes = 0 THEN << Line("Aucun code detecte", <<>>) >>
    ELSE << Line("code(s) detecte(s)", <<ToString(res.total_codes)>>),
            Line("Info image", res.image_info.dimensions) >>
         \o format_codes(res.codes_found, 1)

\* handle_photo, lines 193-195: the error of decode_codes is reported
ReportError ==
    /\ pc = "done"
    /\ "error" \in DOMAIN results
    /\ response' = << Line("Erreur", <<results.error>>) >>
    /\ pc' = "replied"
    /\ UNCHANGED <<image, processed_images, i, j, all_decoded, results, stream,
                   failed>>

\* handle_photo, lines 198-202: the report is formatted and sent
FormatResults ==
    /\ pc = "done"
    /\ "error" \notin DOMAIN results
    /\ response' = format_results(results)
    /\ pc' = "replied"
    /\ UNCHANGED <<image, processed_images, i, j, all_decoded, results, stream,
                   failed>>

Next ==
    \/ LoadFails
    \/ LoadImage
    \/ ScanRaises
    \/ ProcessDetection
    \/ ProcessRaises
    \/ NextVariant
    \/ Finish
    \/ ReportError
    \/ FormatResults

Spec == Init /\ [][Next]_vars

(***************************************************************************)
(* format_results on reports of one code whose payload and type range over *)
(* larger sets: the analysers are pure functions of the code.              *)
(***************************************************************************)
Digits == <<"0", "1", "2", "3", "4", "5", "6", "7", "8", "9">>

\* the payload 4006381333931
SampleEan13 == <<"4", "0", "0", "6", "3", "8", "1", "3", "3", "3", "9", "3", "1">>

DigitPayloads ==
    { [k \in 1..n |-> Digits[((a * k + b) % 10) + 1]] :
        n \in 0..MaxLen, a \in {1, 3}, b \in {0, 7} } \cup {SampleEan13}

Tokens == { Http, Mailto, Tel, Wifi, Vcard, SsidTag, Semicolon, <<"a">> }

RECURSIVE Flatten(_)
Flatten(ts) == IF ts = <<>> THEN <<>> ELSE Head(ts) \o Flatten(Tail(ts))

TokenPayloads ==
    { Flatten(ts) : ts \in UNION { [1..n -> Tokens] : n \in 0..MaxTok } }

FormatTypes == { "EAN13", "EAN8", "UPCA", "UPCE", "QRCODE", "CODE128" }

FormatLooks == { LookNoQuality } \cup { l \in Looks : l.quality = 1 }

FormatObjects ==
    { Decoded(d, t, look) :
        d \in DigitPayloads \cup TokenPayloads, t \in FormatTypes,
        look \in FormatLooks }

\* decode_codes has returned the report of an image in which the first
\* variant showed one code
InitFormat ==
    /\ pc = "done"
    /\ image = CHOOSE img \in Images : TRUE
    /\ processed_images = preprocess_image(image)
    /\ i = Len(processed_images)
    /\ j = 0
    /\ \E obj \in FormatObjects :
         /\ all_decoded = AppendUnlessDuplicate(<<>>, obj, 0)
         /\ stream = << [entry |-> Entry(obj, 0), pos |-> 0] >>
    /\ results = SuccessResult(image, all_decoded)
    /\ failed = {}
    /\ response = <<>>

NextFormat == FormatResults

FormatSpec == InitFormat /\ [][NextFormat]_vars

(***************************************************************************)
(* Properties                                                              *)
(***************************************************************************)
SameKey(a, b) == a.data = b.data /\ a.type = b.type

NoDuplicateKeys(codes) ==
    \A a, b \in 1..Len(codes) : a # b => ~SameKey(codes[a], codes[b])

Succeeded == "codes_found" \in DOMAIN results

\* the list the report carries once decode_codes has returned, the list
\* accumulated so far before
Codes == IF Succeeded THEN results.codes_found ELSE all_decoded

\* positions of the stream at which a detection of e's key was processed
Encounters(e) == { n \in 1..Len(stream) : SameKey(stream[n].entry, e) }

FirstEncounter(e) == CHOOSE n \in Encounters(e) : \A m \in Encounters(e) : n <= m

\* C1: codes_found never holds two entries with the same (data, type) pair,
\* whatever the scans return; rectangle and polygon are no part of the key.
C1_NoDuplicateKey ==
    /\ NoDuplicateKeys(all_decoded)
    /\ Succeeded => NoDuplicateKeys(results.codes_found)

\* one variant showed the same payload and type at two rectangles; the
\* report holds one entry
C1_Witness ==
    /\ pc = "done"
    /\ Succeeded
    /\ Len(results.codes_found) = 1
    /\ \E a, b \in 1..Len(stream) :
         /\ a < b
         /\ SameKey(stream[a].entry, stream[b].entry)
         /\ stream[a].entry.preprocessing_step = stream[b].entry.preprocessing_step
         /\ stream[a].entry.rect # stream[b].entry.rect

\* C2: the entry that survives for a key is the first detection of that key
\* the loop met: it carries the lowest variant ordinal among the detections
\* of the key and the rect, polygon and quality of that first detection.
C2_FirstEncounterSurvives ==
    \A k \in 1..Len(Codes) :
        LET e == Codes[k] IN
        /\ Encounters(e) # {}
        /\ e = stream[FirstEncounter(e)].entry
        /\ \A n \in Encounters(e) :
              e.preprocessing_step <= stream[n].entry.preprocessing_step

\* a key was read in two variants, the later read with the higher quality
C2_Witness ==
    /\ pc = "done"
    /\ Succeeded
    /\ \E a, b \in 1..Len(stream) :
         /\ a < b
         /\ SameKey(stream[a].entry, stream[b].entry)
         /\ stream[a].entry.preprocessing_step < stream[b].entry.preprocessing_step
         /\ stream[a].entry.quality = <<1>>
         /\ stream[b].entry.quality = <<2>>
         /\ stream[a].entry.rect # stream[b].entry.rect

\* C3: a variant whose scan raised, at whatever point, contributes no entry;
\* the variants after it are still scanned and the result is a success.
C3_FailedVariantContributesNothing ==
    /\ \A k \in 1..Len(all_decoded) : all_decoded[k].preprocessing_step \notin failed
    /\ (pc = "done" /\ failed # {}) => (Succeeded /\ i = Len(processed_images))

\* C4: an unreadable image gives the error result alone; nothing is
\* generated or scanned.
C4_UnreadableImageOnlyError ==
    (pc # "load" /\ image = None) =>
        /\ DOMAIN results = {"error"}
        /\ processed_images = <<>>
        /\ stream = <<>>
        /\ failed = {}
        /\ all_decoded = <<>>
        /\ i = 0

C4_Witness == pc = "done" /\ image = None /\ "error" \in DOMAIN results

\* C5: in every success report total_codes is the length of codes_found.
C5_CountIsLength == Succeeded => results.total_codes = Len(results.codes_found)

\* a report of two codes of one payload text, after a variant failed
C5_Witness ==
    /\ pc = "done"
    /\ Succeeded
    /\ failed # {}
    /\ Len(results.codes_found) = 2
    /\ results.codes_found[1].data = results.codes_found[2].data

\* C6: an image that loads and shows no code in any variant gives a success
\* report with an empty list, count 0 and no error field.
C6_NoCodeIsSuccess ==
    (pc = "done" /\ image # None /\ stream = <<>>) =>
        /\ "error" \notin DOMAIN results
        /\ Succeeded
        /\ results.codes_found = <<>>
        /\ results.total_codes = 0

\* no detection in any variant, one of the scans raised
C6_Witness ==
    /\ pc = "done"
    /\ image # None
    /\ stream = <<>>
    /\ failed # {}
    /\ Succeeded

\* C7: every step of the scan leaves the accumulated list a prefix of the
\* new one: entries are appended, never removed or replaced.
C7_OnlyAppends == [][IsPrefix(all_decoded, all_decoded')]_vars

\* a later variant added a second entry behind the first
C7_Witness ==
    /\ pc = "scan"
    /\ Len(all_decoded) = 2
    /\ all_decoded[1].preprocessing_step < all_decoded[2].preprocessing_step
    /\ i > all_decoded[2].preprocessing_step

\* C8: the entries stand in the order in which their keys were first met,
\* so preprocessing_step never decreases along the list.
C8_FirstEncounterOrder ==
    \A a, b \in 1..Len(Codes) :
        a < b =>
          /\ Encounters(Codes[a]) # {}
          /\ Encounters(Codes[b]) # {}
          /\ FirstEncounter(Codes[a]) < FirstEncounter(Codes[b])
          /\ Codes[a].preprocessing_step <= Codes[b].preprocessing_step

\* one variant showed two keys; they stand in the order of its list
C8_Witness ==
    /\ pc = "done"
    /\ Succeeded
    /\ Len(results.codes_found) = 2
    /\ results.codes_found[1].preprocessing_step = results.codes_found[2].preprocessing_step
    /\ stream[1].entry = results.codes_found[1]
    /\ stream[2].entry = results.codes_found[2]
    /\ stream[1].pos < stream[2].pos

\* the values of the lines of resp labelled label, in order
RECURSIVE Values(_, _)
Values(resp, label) ==
    IF resp = <<>> THEN <<>>
    ELSE ( IF Head(resp).label = label THEN <<Head(resp).value>> ELSE <<>> )
         \o Values(Tail(resp), label)

ProductLabels == { "Code pays", "Code fabricant", "Code produit", "Chiffre de controle" }

\* the product fields of resp, one after the other
RECURSIVE ProductFields(_)
ProductFields(resp) ==
    IF resp = <<>> THEN <<>>
    ELSE ( IF Head(resp).label \in ProductLabels THEN Head(resp).value ELSE <<>> )
         \o ProductFields(Tail(resp))

Replied == pc = "replied" /\ Succeeded /\ Len(results.codes_found) = 1

\* C9: for a retail symbology a payload of 13 characters is split into
\* characters 1-3, 4-8, 9-12 and 13, one of 8 characters into 1-2, 3-7 and 8,
\* any other length gives no field; the fields cover the payload in order.
C9_ProductDecomposition ==
    (Replied /\ results.codes_found[1].type \in RetailTypes) =>
        LET d == results.codes_found[1].data
            F(label) == Values(response, label)
        IN IF Len(d) = 13 THEN
               /\ F("Code pays") = << SubSeq(d, 1, 3) >>
               /\ F("Code fabricant") = << SubSeq(d, 4, 8) >>
               /\ F("Code produit") = << SubSeq(d, 9, 12) >>
               /\ F("Chiffre de controle") = << SubSeq(d, 13, 13) >>
               /\ ProductFields(response) = d
           ELSE IF Len(d) = 8 THEN
               /\ F("Code pays") = << SubSeq(d, 1, 2) >>
               /\ F("Code fabricant") = <<>>
               /\ F("Code produit") = << SubSeq(d, 3, 7) >>
               /\ F("Chiffre de controle") = << SubSeq(d, 8, 8) >>
               /\ ProductFields(response) = d
           ELSE \A label \in ProductLabels : F(label) = <<>>

\* the EAN-13 code 4006381333931 was formatted: 400, 63813, 3393, 1
C9_Witness ==
    /\ Replied
    /\ results.codes_found[1].type = "EAN-13"
    /\ results.codes_found[1].data = SampleEan13
    /\ Values(response, "Code pays") = << <<"4", "0", "0">> >>
    /\ Values(response, "Code fabricant") = << <<"6", "3", "8", "1", "3">> >>
    /\ Values(response, "Code produit") = << <<"3", "3", "9", "3">> >>
    /\ Values(response, "Chiffre de controle") = << <<"1">> >>

\* the content type the prefix rules give, first match first
QrType(d) ==
    IF StartsWith(d, Http) THEN "URL"
    ELSE IF StartsWith(d, Mailto) THEN "Email"
    ELSE IF StartsWith(d, Tel) THEN "Telephone"
    ELSE IF StartsWith(d, Wifi) THEN "Configuration WiFi"
    ELSE IF StartsWith(d, Vcard) THEN "Carte de visite (vCard)"
    ELSE "Texte"

\* C10: a QR payload gets exactly one content type by prefix, its length is
\* always reported, and for a WiFi payload containing S: the SSID is the text
\* between the first S: and the next ; after it.
C10_QrClassification ==
    (Replied /\ results.codes_found[1].type = "QR Code") =>
        LET d == results.codes_found[1].data
            s == FindFrom(d, SsidTag, 1)
            e == FindFrom(d, Semicolon, s + 2)
        IN /\ Values(response, "Type") = << <<QrType(d)>> >>
           /\ Values(response, "Longueur") = << <<ToString(Len(d))>> >>
           /\ (StartsWith(d, Wifi) /\ s # 0 /\ e # 0) =>
                 Values(response, "SSID") = << SubSeq(d, s + 2, e - 1) >>
====
